---- MODULE Spec2Model ----
(***************************************************************************)
(* Model of the SkyBlock inventory tracker (src/index.js).                 *)
(*                                                                         *)
(* One run of the script is one pass through                               *)
(*   getPlayerInventory -> getFirebaseData x2 -> reconcile ->              *)
(*   sendTelegramMessage (if hasChanges) -> updateFirebaseData x2.         *)
(* The two Firestore documents prev_inventory and investment_record are    *)
(* the only state that survives a run.                                     *)
(*                                                                         *)
(* A JavaScript object whose iteration order the code relies on            *)
(* (currentInventory) is a sequence of <<name, count>> entries with        *)
(* distinct names; an object that is only looked up by key (the two        *)
(* documents read from Firestore) is a function on a subset of Items.      *)
(***************************************************************************)
EXTENDS Integers, Sequences, FiniteSets, TLC

\* ------------------------------------------------------------------ bounds
Items == {"Bow", "Diamond"}
MaxQty == 3
MaxLed == 3
MaxCount == 2
MaxSlots == 3

\* src/index.js:37
MAX_RETRIES == 3

Docs == {"prev_inventory", "investment_record"}

\* ------------------------------------------------- JavaScript object helpers
\* obj[key] || 0 on an object used as a map
GetOr0(obj, key) == IF key \in DOMAIN obj THEN obj[key] ELSE 0

\* obj[key] = value (adds the key when it is missing)
SetKey(obj, key, value) ==
  [k \in (DOMAIN obj) \cup {key} |-> IF k = key THEN value ELSE obj[k]]

\* keys of an ordered object
Names(entries) == {entries[j][1] : j \in DOMAIN entries}

\* entries[name] of an ordered object; 0 stands for undefined, which the
\* code only ever tests for falsiness or replaces by 0
CountOf(entries, name) ==
  IF name \in Names(entries)
  THEN (CHOOSE e \in {entries[j] : j \in DOMAIN entries} : e[1] = name)[2]
  ELSE 0

\* the document Firestore stores for an ordered object: key order is not kept
ToMap(entries) == [n \in Names(entries) |-> CountOf(entries, n)]

\* position of a name in an ordered object
IndexOf(entries, name) == CHOOSE j \in DOMAIN entries : entries[j][1] = name

\* a merge that adds the quantity of a key both objects have
RECURSIVE ObjSpread_Sum(_, _)
ObjSpread_Sum(a, b) ==
  IF b = <<>> THEN a
  ELSE LET e == Head(b)
           a1 == IF e[1] \in Names(a)
                 THEN [a EXCEPT ![IndexOf(a, e[1])] =
                         <<e[1], @[2] + e[2]>>]
                 ELSE Append(a, e)
       IN ObjSpread_Sum(a1, Tail(b))

\* { ...a, ...b }: a key of b that a already has keeps a's position and takes
\* b's value, a new key is appended
RECURSIVE ObjSpread(_, _)
ObjSpread(a, b) ==
  IF b = <<>> THEN a
  ELSE LET e == Head(b)
           a1 == IF e[1] \in Names(a)
                 THEN [a EXCEPT ![IndexOf(a, e[1])] = e]
                 ELSE Append(a, e)
       IN ObjSpread(a1, Tail(b))

\* ---------------------------------------------------------------- domains
\* ordered objects with distinct item names and quantities 1..MaxQty, as
\* processContainer / processStorage produce them (count = item.Count || 1)
RECURSIVE OrderedObjects(_)
OrderedObjects(n) ==
  IF n = 0 THEN {<<>>}
  ELSE LET shorter == OrderedObjects(n - 1)
       IN shorter \cup
          {Append(s, <<name, q>>) :
             s \in {t \in shorter : Len(t) = n - 1},
             name \in Items, q \in 1..MaxQty}

Snapshots ==
  {s \in OrderedObjects(Cardinality(Items)) :
     Cardinality(Names(s)) = Len(s)}

\* what a run can observe as the merged currentInventory
ObservableInventories ==
  {ObjSpread(ObjSpread(inv, ender), stor) :
     inv \in Snapshots, ender \in Snapshots, stor \in Snapshots}

\* documents a run can find in prev_inventory
SnapshotMaps == {ToMap(s) : s \in Snapshots}

\* documents a run can find in investment_record
Ledgers ==
  UNION {[S -> 0..MaxLed] : S \in SUBSET Items}

\* ------------------------------------------------ extraction (lines 93-122)
\* a field the profile does not have
Undefined == "undefined"

\* line 97 and line 110: the name of a slot that has no display_name
Fallback == "Sin nombre"

\* line 97: item.display_name || "Sin nombre"
SlotKey(item) ==
  IF item.display_name = Undefined THEN Fallback ELSE item.display_name

\* line 98: item.Count || 1; Count 0 stands for a slot without Count
SlotCount(item) == IF item.Count = 0 THEN 1 ELSE item.Count

\* a set that replaces the quantity already counted for the key
MapAdd_Overwrite(itemsMap, key, count) ==
  IF key \in Names(itemsMap)
  THEN [itemsMap EXCEPT ![IndexOf(itemsMap, key)] = <<key, count>>]
  ELSE Append(itemsMap, <<key, count>>)

\* line 99: itemsMap.set(key, (itemsMap.get(key) || 0) + count); a Map keeps
\* the position of a key it already has
MapAdd(itemsMap, key, count) ==
  IF key \in Names(itemsMap)
  THEN [itemsMap EXCEPT ![IndexOf(itemsMap, key)] = <<key, @[2] + count>>]
  ELSE Append(itemsMap, <<key, count>>)

\* lines 95-100 and 108-113: the loop over the slots of one container
RECURSIVE AddSlots(_, _)
AddSlots(itemsMap, slots) ==
  IF slots = <<>> THEN itemsMap
  ELSE LET item == Head(slots)
       IN IF ~item.id
          THEN AddSlots(itemsMap, Tail(slots))
          ELSE AddSlots(MapAdd(itemsMap, SlotKey(item), SlotCount(item)),
                        Tail(slots))

\* lines 93-102
processContainer(container) == AddSlots(<<>>, container)

\* lines 106-114: the loop over the units, one map for all of them
RECURSIVE AddUnits(_, _)
AddUnits(itemsMap, units) ==
  IF units = <<>> THEN itemsMap
  ELSE LET unit == Head(units)
       IN IF ~unit.has
          THEN AddUnits(itemsMap, Tail(units))
          ELSE AddUnits(AddSlots(itemsMap, unit.containsItems), Tail(units))

\* lines 104-116
processStorage(storage) == AddUnits(<<>>, storage)

\* slots of the profile: an empty slot, or an item with or without
\* display_name and Count
SlotKinds ==
  {[id |-> FALSE, display_name |-> Undefined, Count |-> 0]} \cup
  {[id |-> TRUE, display_name |-> n, Count |-> c] :
     n \in Items \cup {Undefined}, c \in 0..MaxCount}

\* Object.values of a container with at most n slots
RECURSIVE Containers(_)
Containers(n) ==
  IF n = 0 THEN {<<>>}
  ELSE LET shorter == Containers(n - 1)
       IN shorter \cup
          {Append(c, slot) :
             c \in {t \in shorter : Len(t) = n - 1}, slot \in SlotKinds}

\* the first k slots of a container, and the others
Take(c, k) == [j \in 1..k |-> c[j]]
Drop(c, k) == [j \in 1..(Len(c) - k) |-> c[j + k]]

\* the container c as two units cut after slot k, with or without a unit
\* that has no containsItems between them
SplitInUnits(c, k, gap) ==
  LET m == IF k < Len(c) THEN k ELSE Len(c)
      first == [has |-> TRUE, containsItems |-> Take(c, m)]
      second == [has |-> TRUE, containsItems |-> Drop(c, m)]
  IN IF gap
     THEN <<first, [has |-> FALSE, containsItems |-> <<>>], second>>
     ELSE <<first, second>>

\* Object.values of a storage
Storages ==
  {SplitInUnits(c, k, gap) :
     c \in Containers(MaxSlots), k \in 0..MaxSlots, gap \in BOOLEAN}

Sources == {"inventory", "enderchest", "storage"}

\* ------------------------------------------- reconciliation (lines 145-173)
Abs(x) == IF x < 0 THEN -x ELSE x
Min(x, y) == IF x < y THEN x ELSE y

\* a filter that keeps only the items the previous snapshot did not have
IsChanged_NewOnly(prev, entry) == entry[1] \notin DOMAIN prev

\* a loop that marks the run dirty on every drop, sold or not
ProcessEntry_DirtyOnDrop(acc, entry, prev) ==
  LET itemName == entry[1]
      diff == entry[2] - GetOr0(prev, itemName)
  IN IF diff > 0
     THEN [rec |-> SetKey(acc.rec, itemName,
                          GetOr0(acc.rec, itemName) + diff),
           dirty |-> TRUE]
     ELSE IF diff < 0
     THEN LET invested == GetOr0(acc.rec, itemName)
              sold == IF -diff < invested THEN -diff ELSE invested
          IN [rec |-> IF sold > 0
                      THEN SetKey(acc.rec, itemName, invested - sold)
                      ELSE acc.rec,
              dirty |-> TRUE]
     ELSE acc

\* a lookup that never finds the previous count
PrevCount_Missing(prev, itemName) == 0

\* line 150: prevInventory[itemName] || 0
PrevCount(prev, itemName) == GetOr0(prev, itemName)

\* an acquisition that forgets what was already invested
Acquire_Overwrite(rec, itemName, diff) == SetKey(rec, itemName, diff)

\* lines 153-156: diff > 0
Acquire(rec, itemName, diff) ==
  SetKey(rec, itemName, GetOr0(rec, itemName) + diff)

\* a sale that is not capped by the invested amount
Sold_NoMin(diff, invested) == Abs(diff)

\* line 159: Math.min(Math.abs(diff), invested)
Sold(diff, invested) == Min(Abs(diff), invested)

\* a depletion that subtracts the whole drop from a positive investment
Deplete_NoFloor(rec, itemName, diff) ==
  IF GetOr0(rec, itemName) > 0
  THEN [rec EXCEPT ![itemName] = @ - Abs(diff)]
  ELSE rec

\* lines 157-164: diff < 0; sold > 0 means invested > 0, so the key that
\* line 161 decrements exists and holds invested
Deplete(rec, itemName, diff) ==
  LET invested == GetOr0(rec, itemName)
      sold == Sold(diff, invested)
  IN IF sold > 0 THEN SetKey(rec, itemName, invested - sold) ELSE rec

\* lines 149-165, one iteration; acc = [rec, dirty]
ProcessEntry(acc, entry, prev) ==
  LET itemName == entry[1]
      currentCount == entry[2]
      diff == currentCount - PrevCount(prev, itemName)
  IN IF diff > 0
     THEN [rec |-> Acquire(acc.rec, itemName, diff), dirty |-> TRUE]
     ELSE IF diff < 0
     THEN [rec |-> Deplete(acc.rec, itemName, diff),
           dirty |-> acc.dirty \/
                     Sold(diff, GetOr0(acc.rec, itemName)) > 0]
     ELSE acc

\* a loop that stops after its first entry
FirstPass_FirstOnly(acc, entries, prev) ==
  IF entries = <<>> THEN acc ELSE ProcessEntry(acc, Head(entries), prev)

\* lines 149-165: for (const [itemName, currentCount] of Object.entries(...))
RECURSIVE FirstPass(_, _, _)
FirstPass(acc, entries, prev) ==
  IF entries = <<>> THEN acc
  ELSE FirstPass(ProcessEntry(acc, Head(entries), prev), Tail(entries), prev)

\* a test that prunes every positive entry, held or not
ShouldPrune_Always(cur, itemName, invested) == invested > 0

\* line 169: !currentInventory[itemName] && invested > 0
ShouldPrune(cur, itemName, invested) ==
  CountOf(cur, itemName) = 0 /\ invested > 0

\* a prune that zeroes the entry instead of deleting the key
SecondPass_Zero(acc, cur) ==
  LET gone == {k \in DOMAIN acc.rec : ShouldPrune(cur, k, acc.rec[k])}
  IN [rec |-> [k \in DOMAIN acc.rec |->
                 IF k \in gone THEN 0 ELSE acc.rec[k]],
      dirty |-> acc.dirty \/ gone # {}]

\* lines 168-173: the entries are taken before the loop and every entry is
\* judged on its own value, so the order of the loop does not matter
SecondPass(acc, cur) ==
  LET gone == {k \in DOMAIN acc.rec : ShouldPrune(cur, k, acc.rec[k])}
  IN [rec |-> [k \in (DOMAIN acc.rec) \ gone |-> acc.rec[k]],
      dirty |-> acc.dirty \/ gone # {}]

\* lines 145-173: newInvestmentRecord and hasChanges
Reconcile(cur, prev, led) ==
  SecondPass(FirstPass([rec |-> led, dirty |-> FALSE], cur, prev), cur)

\* line 178: prevInventory[name] !== currentInventory[name]; a missing key
\* is undefined and differs from every count
IsChanged(prev, entry) ==
  entry[1] \notin DOMAIN prev \/ prev[entry[1]] # entry[2]

\* lines 177-181: one <<name, previous or 0, current>> per change line
RECURSIVE ChangeLines(_, _)
ChangeLines(entries, prev) ==
  IF entries = <<>> THEN <<>>
  ELSE LET e == Head(entries)
           rest == ChangeLines(Tail(entries), prev)
       IN IF IsChanged(prev, e)
          THEN <<<<e[1], GetOr0(prev, e[1]), e[2]>>>> \o rest
          ELSE rest

\* ------------------------------------------------------------------ state
VARIABLES
  store,               \* Firestore: document name -> [exists, data]
  storeAtStart,        \* the store as it was when the run began
  pc,                  \* position of the run
  i,                   \* loop counter of the active fetchWithRetry
  pending,             \* Firestore calls issued and not yet settled
  currentInventory,    \* line 134
  prevInventory,       \* line 140
  investmentRecord,    \* line 140
  newInvestmentRecord, \* line 146
  hasChanges,          \* line 145
  changes,             \* line 177
  failedStage,         \* the stage of the run that failed, or "none"
  attempted,           \* kinds of message handed to sendTelegramMessage
  delivered,           \* kinds of message Telegram accepted
  exitCode,            \* "running", or the exit status of the process
  storeErrors,         \* Firestore calls of this run that were rejected
  rawSource,           \* an items sub-tree of the profile, lines 119-121
  inventoryData,       \* line 131: what getPlayerInventory returned
  other                \* a second, overlapping run of the script

vars == <<store, storeAtStart, pc, i, pending, currentInventory,
          prevInventory, investmentRecord, newInvestmentRecord, hasChanges,
          changes, failedStage, attempted, delivered, exitCode,
          storeErrors, rawSource, inventoryData, other>>

\* what the new variables hold where the extraction and the second run are
\* not looked at
extra == <<rawSource, inventoryData, other>>

\* the second run has not been started
OtherIdle ==
  [pc |-> "idle", pending |-> {}, currentInventory |-> <<>>,
   prevInventory |-> <<>>, investmentRecord |-> <<>>,
   newInvestmentRecord |-> <<>>]

runVars == <<store, storeAtStart, i, pending, failedStage, attempted,
             delivered, exitCode, storeErrors>>

\* a message that is sent when there are change lines to show
NotifyGate_Lines(dirty, cur, prev) == ChangeLines(cur, prev) # <<>>

\* line 175: if (hasChanges)
NotifyGate(dirty, cur, prev) == dirty

\* lines 175-181: the change lines exist only inside if (hasChanges)
BuildChanges(dirty, cur, prev) ==
  IF dirty THEN ChangeLines(cur, prev) ELSE <<>>

\* --------------------------------------------- reconciliation on its own
\* every (current, previous, ledger) within the bounds, then the engine
\* applied once, then applied again to its own result with previous = current
EmptyStore == [d \in Docs |-> [exists |-> FALSE, data |-> <<>>]]

InitRec ==
  /\ currentInventory \in ObservableInventories
  /\ prevInventory \in SnapshotMaps
  /\ investmentRecord \in Ledgers
  /\ newInvestmentRecord = <<>>
  /\ hasChanges = FALSE
  /\ changes = <<>>
  /\ pc = "rec0"
  /\ store = EmptyStore
  /\ storeAtStart = EmptyStore
  /\ i = 0
  /\ pending = {}
  /\ failedStage = "none"
  /\ attempted = {}
  /\ delivered = {}
  /\ exitCode = "running"
  /\ storeErrors = 0
  /\ rawSource = <<>>
  /\ inventoryData = <<>>
  /\ other = OtherIdle

\* lines 145-181 applied to the inputs
ReconcileOnce ==
  /\ pc = "rec0"
  /\ LET r == Reconcile(currentInventory, prevInventory, investmentRecord)
     IN /\ newInvestmentRecord' = r.rec
        /\ hasChanges' = r.dirty
        /\ changes' = BuildChanges(r.dirty, currentInventory, prevInventory)
  /\ pc' = "rec1"
  /\ UNCHANGED <<currentInventory, prevInventory, investmentRecord, runVars>>
  /\ UNCHANGED extra

\* the next run: lines 191-194 stored currentInventory and
\* newInvestmentRecord, and the same inventory is observed again
ReconcileAgain ==
  /\ pc = "rec1"
  /\ prevInventory' = ToMap(currentInventory)
  /\ investmentRecord' = newInvestmentRecord
  /\ LET r == Reconcile(currentInventory, prevInventory', investmentRecord')
     IN /\ newInvestmentRecord' = r.rec
        /\ hasChanges' = r.dirty
        /\ changes' = BuildChanges(r.dirty, currentInventory, prevInventory')
  /\ pc' = "rec2"
  /\ UNCHANGED <<currentInventory, runVars>>
  /\ UNCHANGED extra

NextRec == ReconcileOnce \/ ReconcileAgain

SpecRec == InitRec /\ [][NextRec]_vars

\* ------------------------------------------------------------ one run
\* lines 61-65: a missing document reads as {}
getFirebaseData(documentName) ==
  IF store[documentName].exists THEN store[documentName].data ELSE <<>>

\* a write that merges into the stored document and keeps its other keys
updateFirebaseData_Merge(documentName, data) ==
  LET old == getFirebaseData(documentName)
  IN [store EXCEPT ![documentName] =
        [exists |-> TRUE,
         data |-> [k \in (DOMAIN old) \cup (DOMAIN data) |->
                     IF k \in DOMAIN data THEN data[k] ELSE old[k]]]]

\* lines 67-70: setDoc replaces the whole document
updateFirebaseData(documentName, data) ==
  [store EXCEPT ![documentName] = [exists |-> TRUE, data |-> data]]

\* a ledger write that carries the ledger as it was read
Payload_OldLedger(documentName) ==
  IF documentName = "prev_inventory"
  THEN ToMap(currentInventory)
  ELSE investmentRecord

\* lines 192-193: what each write carries
Payload(documentName) ==
  IF documentName = "prev_inventory"
  THEN ToMap(currentInventory)
  ELSE newInvestmentRecord

\* the callers of fetchWithRetry: line 78, line 207 from line 187, and
\* line 207 from line 231
FetchSites == {"fetchProfile", "notifyChange", "notifyFailure"}

locals == <<currentInventory, prevInventory, investmentRecord,
            newInvestmentRecord, hasChanges, changes>>

\* the first run of the script against an empty collection
Init ==
  /\ store = EmptyStore
  /\ storeAtStart = EmptyStore
  /\ pc = "fetchProfile"
  /\ i = 0
  /\ pending = {}
  /\ currentInventory = <<>>
  /\ prevInventory = <<>>
  /\ investmentRecord = <<>>
  /\ newInvestmentRecord = <<>>
  /\ hasChanges = FALSE
  /\ changes = <<>>
  /\ failedStage = "none"
  /\ attempted = {}
  /\ delivered = {}
  /\ exitCode = "running"
  /\ storeErrors = 0
  /\ rawSource = <<>>
  /\ inventoryData = <<>>
  /\ other = OtherIdle

\* a loop that allows one attempt too many
FetchRetry_OffByOne ==
  /\ pc \in FetchSites
  /\ i < MAX_RETRIES
  /\ i' = i + 1
  /\ UNCHANGED <<store, storeAtStart, pc, pending, locals, failedStage,
                 attempted, delivered, exitCode>>
  /\ UNCHANGED <<storeErrors, extra>>

\* lines 47-54: a failed attempt that is not the last one
FetchRetry ==
  /\ pc \in FetchSites
  /\ i < MAX_RETRIES - 1
  /\ i' = i + 1
  /\ UNCHANGED <<store, storeAtStart, pc, pending, locals, failedStage,
                 attempted, delivered, exitCode>>
  /\ UNCHANGED <<storeErrors, extra>>

\* a failed fetch that is taken for an empty inventory: the run goes on
ProfileFetchExhausted_AsEmpty ==
  /\ pc = "fetchProfile"
  /\ i = MAX_RETRIES - 1
  /\ failedStage' = "profile"
  /\ currentInventory' = <<>>
  /\ pc' = "read"
  /\ pending' = Docs
  /\ UNCHANGED <<store, storeAtStart, i, prevInventory, investmentRecord,
                 newInvestmentRecord, hasChanges, changes, attempted,
                 delivered, exitCode>>
  /\ UNCHANGED <<storeErrors, extra>>

\* line 52 rethrows the last failure of the profile fetch; lines 123-126
\* return null, line 132 returns, line 228 logs success and the script ends
ProfileFetchExhausted ==
  /\ pc = "fetchProfile"
  /\ i = MAX_RETRIES - 1
  /\ failedStage' = "profile"
  /\ pc' = "exited"
  /\ exitCode' = 0
  /\ UNCHANGED <<store, storeAtStart, i, pending, locals, attempted,
                 delivered>>
  /\ UNCHANGED <<storeErrors, extra>>

\* lines 79-91 throw on a profile without profiles, current profile or
\* items; lines 123-126 return null and the script ends as above
ProfileMalformed ==
  /\ pc = "fetchProfile"
  /\ failedStage' = "extract"
  /\ pc' = "exited"
  /\ exitCode' = 0
  /\ UNCHANGED <<store, storeAtStart, i, pending, locals, attempted,
                 delivered>>
  /\ UNCHANGED <<storeErrors, extra>>

\* the observation keeps the ledger of this run within MaxLed
WithinLedgerBound(cur) ==
  LET r == Reconcile(cur, getFirebaseData("prev_inventory"),
                     getFirebaseData("investment_record"))
  IN \A k \in DOMAIN r.rec : r.rec[k] <= MaxLed

\* lines 79-122 and 134-143: the profile is extracted and merged, and both
\* reads are issued
ProfileObtained ==
  /\ pc = "fetchProfile"
  /\ \E cur \in ObservableInventories :
       /\ WithinLedgerBound(cur)
       /\ currentInventory' = cur
  /\ pc' = "read"
  /\ pending' = Docs
  /\ UNCHANGED <<store, storeAtStart, i, prevInventory, investmentRecord,
                 newInvestmentRecord, hasChanges, changes, failedStage,
                 attempted, delivered, exitCode>>
  /\ UNCHANGED <<storeErrors, extra>>

\* lines 140-143: one getDoc resolves
ReadOk(d) ==
  /\ pc = "read"
  /\ d \in pending
  /\ IF d = "prev_inventory"
     THEN /\ prevInventory' = getFirebaseData(d)
          /\ UNCHANGED investmentRecord
     ELSE /\ investmentRecord' = getFirebaseData(d)
          /\ UNCHANGED prevInventory
  /\ pending' = pending \ {d}
  /\ pc' = IF pending' = {} THEN "reconcile" ELSE "read"
  /\ UNCHANGED <<store, storeAtStart, i, currentInventory,
                 newInvestmentRecord, hasChanges, changes, failedStage,
                 attempted, delivered, exitCode>>
  /\ UNCHANGED <<storeErrors, extra>>

\* line 63 rejects: Promise.all rejects, lines 195-198 rethrow, line 231
\* calls sendTelegramMessage
ReadFail(d) ==
  /\ pc = "read"
  /\ d \in pending
  /\ pending' = {}
  /\ failedStage' = "read"
  /\ storeErrors' = storeErrors + 1
  /\ attempted' = attempted \cup {"failure"}
  /\ pc' = "notifyFailure"
  /\ i' = 0
  /\ UNCHANGED <<store, storeAtStart, locals, delivered, exitCode>>
  /\ UNCHANGED extra

\* lines 145-188: reconcile, build the change lines and, when hasChanges,
\* call sendTelegramMessage; otherwise lines 191-194 issue both writes
checkInventoryChanges ==
  /\ pc = "reconcile"
  /\ LET r == Reconcile(currentInventory, prevInventory, investmentRecord)
     IN /\ newInvestmentRecord' = r.rec
        /\ hasChanges' = r.dirty
        /\ changes' = BuildChanges(r.dirty, currentInventory, prevInventory)
        /\ IF NotifyGate(r.dirty, currentInventory, prevInventory)
           THEN /\ attempted' = attempted \cup {"change"}
                /\ pc' = "notifyChange"
                /\ i' = 0
                /\ UNCHANGED pending
           ELSE /\ pc' = "write"
                /\ pending' = Docs
                /\ UNCHANGED <<attempted, i>>
  /\ UNCHANGED <<store, storeAtStart, currentInventory, prevInventory,
                 investmentRecord, failedStage, delivered, exitCode>>
  /\ UNCHANGED <<storeErrors, extra>>

\* a send that lets the error of the last attempt escape to line 195
sendTelegramMessage_Throws ==
  /\ pc = "notifyChange"
  /\ \/ /\ delivered' = delivered \cup {"change"}
        /\ pc' = "write"
        /\ pending' = Docs
        /\ UNCHANGED <<failedStage, attempted, i>>
     \/ /\ i = MAX_RETRIES - 1
        /\ failedStage' = "notify"
        /\ attempted' = attempted \cup {"failure"}
        /\ pc' = "notifyFailure"
        /\ i' = 0
        /\ UNCHANGED <<delivered, pending>>
  /\ UNCHANGED <<store, storeAtStart, locals, exitCode, storeErrors, extra>>

\* lines 204-220 called from line 187: the message is delivered, or the last
\* attempt fails and line 218 only logs; lines 191-194 issue both writes
sendTelegramMessage ==
  /\ pc = "notifyChange"
  /\ \/ delivered' = delivered \cup {"change"}
     \/ i = MAX_RETRIES - 1 /\ UNCHANGED delivered
  /\ pc' = "write"
  /\ pending' = Docs
  /\ UNCHANGED <<store, storeAtStart, i, locals, failedStage, attempted,
                 exitCode>>
  /\ UNCHANGED <<storeErrors, extra>>

\* line 69 resolves: the document is replaced.  After the other write has
\* failed the script is in line 231 and this write is still in flight.
WriteOk(d) ==
  /\ pc \in {"write", "notifyFailure"}
  /\ d \in pending
  /\ store' = updateFirebaseData(d, Payload(d))
  /\ pending' = pending \ {d}
  /\ IF pc = "write" /\ pending' = {}
     THEN pc' = "exited" /\ exitCode' = 0
     ELSE UNCHANGED <<pc, exitCode>>
  /\ UNCHANGED <<storeAtStart, i, locals, failedStage, attempted, delivered>>
  /\ UNCHANGED <<storeErrors, extra>>

\* line 69 rejects: Promise.all rejects, lines 195-198 rethrow, line 231
\* calls sendTelegramMessage; a second rejection has no listener
WriteFail(d) ==
  /\ pc \in {"write", "notifyFailure"}
  /\ d \in pending
  /\ pending' = pending \ {d}
  /\ storeErrors' = storeErrors + 1
  /\ IF pc = "write"
     THEN /\ failedStage' = "write"
          /\ attempted' = attempted \cup {"failure"}
          /\ pc' = "notifyFailure"
          /\ i' = 0
     ELSE UNCHANGED <<failedStage, attempted, pc, i>>
  /\ UNCHANGED <<store, storeAtStart, locals, delivered, exitCode>>
  /\ UNCHANGED extra

\* lines 231-232: the failure message is delivered or given up, then
\* process.exit(1) drops whatever is still in flight
ExitOnFailure ==
  /\ pc = "notifyFailure"
  /\ \/ delivered' = delivered \cup {"failure"}
     \/ i = MAX_RETRIES - 1 /\ UNCHANGED delivered
  /\ pending' = {}
  /\ pc' = "exited"
  /\ exitCode' = 1
  /\ UNCHANGED <<store, storeAtStart, i, locals, failedStage, attempted>>
  /\ UNCHANGED <<storeErrors, extra>>

\* the schedule starts the script again
NewRun ==
  /\ pc = "exited"
  /\ storeAtStart' = store
  /\ pc' = "fetchProfile"
  /\ i' = 0
  /\ pending' = {}
  /\ currentInventory' = <<>>
  /\ prevInventory' = <<>>
  /\ investmentRecord' = <<>>
  /\ newInvestmentRecord' = <<>>
  /\ hasChanges' = FALSE
  /\ changes' = <<>>
  /\ failedStage' = "none"
  /\ attempted' = {}
  /\ delivered' = {}
  /\ exitCode' = "running"
  /\ storeErrors' = 0
  /\ UNCHANGED store
  /\ UNCHANGED extra

Next ==
  \/ FetchRetry
  \/ ProfileFetchExhausted
  \/ ProfileMalformed
  \/ ProfileObtained
  \/ \E d \in Docs : ReadOk(d)
  \/ \E d \in Docs : ReadFail(d)
  \/ checkInventoryChanges
  \/ sendTelegramMessage
  \/ \E d \in Docs : WriteOk(d)
  \/ \E d \in Docs : WriteFail(d)
  \/ ExitOnFailure
  \/ NewRun

Spec == Init /\ [][Next]_vars

\* ------------------------------------------------ extraction on its own
\* either one items sub-tree of the profile to be processed, or the three
\* processed sources to be merged
InitExtract ==
  /\ \/ /\ pc = "extract0"
        /\ \/ rawSource \in [kind : {"inventory", "enderchest"},
                             tree : Containers(MaxSlots)]
           \/ rawSource \in [kind : {"storage"}, tree : Storages]
        /\ inventoryData = <<>>
     \/ /\ pc = "merge0"
        /\ rawSource = <<>>
        /\ inventoryData \in [Sources -> Snapshots]
  /\ currentInventory = <<>>
  /\ prevInventory = <<>>
  /\ investmentRecord = <<>>
  /\ newInvestmentRecord = <<>>
  /\ hasChanges = FALSE
  /\ changes = <<>>
  /\ store = EmptyStore
  /\ storeAtStart = EmptyStore
  /\ i = 0
  /\ pending = {}
  /\ failedStage = "none"
  /\ attempted = {}
  /\ delivered = {}
  /\ exitCode = "running"
  /\ storeErrors = 0
  /\ other = OtherIdle

\* lines 119-121: one property of the object getPlayerInventory returns
ExtractSource ==
  /\ pc = "extract0"
  /\ inventoryData' =
       [k \in {rawSource.kind} |->
          IF rawSource.kind = "storage"
          THEN processStorage(rawSource.tree)
          ELSE processContainer(rawSource.tree)]
  /\ pc' = "extract1"
  /\ UNCHANGED <<locals, runVars, rawSource, other>>

\* lines 134-138
MergeSources ==
  /\ pc = "merge0"
  /\ currentInventory' =
       ObjSpread(ObjSpread(inventoryData["inventory"],
                           inventoryData["enderchest"]),
                 inventoryData["storage"])
  /\ pc' = "merge1"
  /\ UNCHANGED <<prevInventory, investmentRecord, newInvestmentRecord,
                 hasChanges, changes, runVars, extra>>

NextExtract == ExtractSource \/ MergeSources

SpecExtract == InitExtract /\ [][NextExtract]_vars

\* ------------------------------------------------- one run, to its end
\* the documents a clean run leaves behind, and the empty collection
CleanStores ==
  {EmptyStore} \cup
  {[d \in Docs |-> [exists |-> TRUE, data |-> m]] : m \in SnapshotMaps}

InitLive ==
  /\ store \in CleanStores
  /\ storeAtStart = store
  /\ pc = "fetchProfile"
  /\ i = 0
  /\ pending = {}
  /\ currentInventory = <<>>
  /\ prevInventory = <<>>
  /\ investmentRecord = <<>>
  /\ newInvestmentRecord = <<>>
  /\ hasChanges = FALSE
  /\ changes = <<>>
  /\ failedStage = "none"
  /\ attempted = {}
  /\ delivered = {}
  /\ exitCode = "running"
  /\ storeErrors = 0
  /\ rawSource = <<>>
  /\ inventoryData = <<>>
  /\ other = OtherIdle

NextLive ==
  \/ FetchRetry
  \/ ProfileFetchExhausted
  \/ ProfileMalformed
  \/ ProfileObtained
  \/ \E d \in Docs : ReadOk(d)
  \/ \E d \in Docs : ReadFail(d)
  \/ checkInventoryChanges
  \/ sendTelegramMessage
  \/ \E d \in Docs : WriteOk(d)
  \/ \E d \in Docs : WriteFail(d)
  \/ ExitOnFailure

\* every call that was issued settles, and the script runs on when it does
SpecLive == InitLive /\ [][NextLive]_vars /\ WF_vars(NextLive)

\* ------------------------------------------------- two overlapping runs
\* The schedule or a manual dispatch starts the script again while the first
\* run is still going.  Nothing in the script or in the store orders the
\* Firestore calls of the two runs.  Only the calls that succeed are
\* followed: a call of either run that fails leaves the store as a call that
\* has not been made yet does.
InitRace ==
  /\ store \in CleanStores
  /\ storeAtStart = store
  /\ pc = "fetchProfile"
  /\ i = 0
  /\ pending = {}
  /\ currentInventory = <<>>
  /\ prevInventory = <<>>
  /\ investmentRecord = <<>>
  /\ newInvestmentRecord = <<>>
  /\ hasChanges = FALSE
  /\ changes = <<>>
  /\ failedStage = "none"
  /\ attempted = {}
  /\ delivered = {}
  /\ exitCode = "running"
  /\ storeErrors = 0
  /\ rawSource = <<>>
  /\ inventoryData = <<>>
  /\ other = OtherIdle

firstRun == <<pc, i, pending, locals, failedStage, attempted, delivered,
              exitCode, storeErrors, storeAtStart, rawSource, inventoryData>>

\* lines 131-143 of the second run: the profile is obtained and both reads
\* are issued.  The run called the second one is the one that gets its
\* profile later, and the two overlap: the first has not finished yet.
OtherProfileObtained ==
  /\ other.pc = "idle"
  /\ pc \notin {"fetchProfile", "exited"}
  /\ \E cur \in ObservableInventories :
       other' = [other EXCEPT !.pc = "read", !.pending = Docs,
                              !.currentInventory = cur]
  /\ UNCHANGED <<store, firstRun>>

\* lines 140-143 of the second run: one getDoc resolves
OtherReadOk(d) ==
  /\ other.pc = "read"
  /\ d \in other.pending
  /\ other' =
       [other EXCEPT
          !.prevInventory =
             IF d = "prev_inventory" THEN getFirebaseData(d) ELSE @,
          !.investmentRecord =
             IF d = "investment_record" THEN getFirebaseData(d) ELSE @,
          !.pending = @ \ {d},
          !.pc = IF other.pending = {d} THEN "reconcile" ELSE "read"]
  /\ UNCHANGED <<store, firstRun>>

\* lines 145-194 of the second run: reconcile, notify, issue both writes
OtherReconcile ==
  /\ other.pc = "reconcile"
  /\ other' =
       [other EXCEPT
          !.newInvestmentRecord =
             Reconcile(other.currentInventory, other.prevInventory,
                       other.investmentRecord).rec,
          !.pending = Docs,
          !.pc = "write"]
  /\ UNCHANGED <<store, firstRun>>

\* lines 191-194 of the second run: one setDoc resolves
OtherWriteOk(d) ==
  /\ other.pc = "write"
  /\ d \in other.pending
  /\ store' =
       updateFirebaseData(d, IF d = "prev_inventory"
                             THEN ToMap(other.currentInventory)
                             ELSE other.newInvestmentRecord)
  /\ other' = [other EXCEPT !.pending = @ \ {d},
                            !.pc = IF other.pending = {d}
                                   THEN "done" ELSE "write"]
  /\ UNCHANGED firstRun

NextRace ==
  \/ ProfileObtained
  \/ \E d \in Docs : ReadOk(d)
  \/ checkInventoryChanges
  \/ sendTelegramMessage
  \/ \E d \in Docs : WriteOk(d)
  \/ OtherProfileObtained
  \/ \E d \in Docs : OtherReadOk(d)
  \/ OtherReconcile
  \/ \E d \in Docs : OtherWriteOk(d)

SpecRace == InitRace /\ [][NextRace]_vars

\* ------------------------------------------- runs in which nothing fails
\* run after run from an empty collection, one at a time; every fetch is
\* answered at its first attempt and every Firestore call resolves
NextAllOk ==
  \/ ProfileObtained
  \/ \E d \in Docs : ReadOk(d)
  \/ checkInventoryChanges
  \/ sendTelegramMessage
  \/ \E d \in Docs : WriteOk(d)
  \/ NewRun

SpecAllOk == Init /\ [][NextAllOk]_vars

\* ================================================================ claims
Max(x, y) == IF x > y THEN x ELSE y

\* the reconciliation has been applied to unchanged inventory
UnchangedInventory ==
  pc = "rec1" /\ prevInventory = ToMap(currentInventory)

\* every positive entry of the incoming ledger is for an item that is held
NoStaleEntries ==
  \A k \in DOMAIN investmentRecord :
    investmentRecord[k] > 0 => CountOf(currentInventory, k) >= 1

\* C1 as stated: reconciling with current = previous = A and any ledger L
\* leaves hasChanges false and produces no change line.
C1_NoOpForEveryLedger ==
  UnchangedInventory => (hasChanges = FALSE /\ changes = <<>>)

\* C1 amended: reconciling with current = previous = A and a ledger L whose
\* positive entries are all for items held in A leaves hasChanges false and
\* produces no change line.
C1_NoOpOnUnchangedInventory ==
  (UnchangedInventory /\ NoStaleEntries) =>
    (hasChanges = FALSE /\ changes = <<>>)

C1_Witness ==
  /\ UnchangedInventory
  /\ NoStaleEntries
  /\ Len(currentInventory) = Cardinality(Items)
  /\ \E k \in DOMAIN investmentRecord : investmentRecord[k] > 0
  /\ hasChanges = FALSE

\* C2: for every item of the current snapshot whose quantity is greater than
\* its previous quantity (missing = 0), the outgoing ledger value equals the
\* incoming ledger value (missing = 0) plus (current - previous).
C2_AcquisitionRule ==
  pc = "rec1" =>
    \A j \in DOMAIN currentInventory :
      LET name == currentInventory[j][1]
          cur == currentInventory[j][2]
          prev == GetOr0(prevInventory, name)
      IN cur > prev =>
           /\ name \in DOMAIN newInvestmentRecord
           /\ newInvestmentRecord[name] =
                GetOr0(investmentRecord, name) + (cur - prev)

C2_Witness ==
  /\ pc = "rec1"
  /\ \E j \in DOMAIN currentInventory :
       LET name == currentInventory[j][1]
       IN /\ name \in DOMAIN prevInventory
          /\ currentInventory[j][2] > prevInventory[name]
          /\ name \in DOMAIN investmentRecord
          /\ investmentRecord[name] > 0
          /\ newInvestmentRecord[name] > investmentRecord[name]

\* C3: for every item of the current snapshot whose quantity is less than its
\* previous quantity, the outgoing ledger value (missing = 0) equals
\* max(0, incoming - (previous - current)) and is never negative.
C3_DepletionRule ==
  pc = "rec1" =>
    \A j \in DOMAIN currentInventory :
      LET name == currentInventory[j][1]
          cur == currentInventory[j][2]
          prev == GetOr0(prevInventory, name)
      IN cur < prev =>
           /\ GetOr0(newInvestmentRecord, name) =
                Max(0, GetOr0(investmentRecord, name) - (prev - cur))
           /\ GetOr0(newInvestmentRecord, name) >= 0

\* a depletion larger than a positive investment has been absorbed
C3_Witness ==
  /\ pc = "rec1"
  /\ \E j \in DOMAIN currentInventory :
       LET name == currentInventory[j][1]
       IN /\ name \in DOMAIN prevInventory
          /\ name \in DOMAIN investmentRecord
          /\ investmentRecord[name] > 0
          /\ prevInventory[name] - currentInventory[j][2] >
               investmentRecord[name]
          /\ newInvestmentRecord[name] = 0

\* C4: every item absent from the current snapshot and present in the
\* incoming ledger with a value > 0 has no key in the outgoing ledger,
\* whatever the previous snapshot held for it, and the run is dirty.
C4_Pruning ==
  pc = "rec1" =>
    \A k \in DOMAIN investmentRecord :
      (k \notin Names(currentInventory) /\ investmentRecord[k] > 0) =>
        (k \notin DOMAIN newInvestmentRecord /\ hasChanges = TRUE)

\* the scenario of the spec: ledger 3, previous 1, item gone
C4_Witness ==
  /\ pc = "rec1"
  /\ \E k \in DOMAIN investmentRecord :
       /\ k \notin Names(currentInventory)
       /\ investmentRecord[k] = 3
       /\ k \in DOMAIN prevInventory
       /\ prevInventory[k] = 1
       /\ k \notin DOMAIN newInvestmentRecord

\* C5: if a first reconciliation (C, P, L) yields L1, a second one with
\* current = C, previous = C and ledger L1 is not dirty and yields L1.
C5_Idempotence ==
  pc = "rec2" =>
    /\ hasChanges = FALSE
    /\ newInvestmentRecord = investmentRecord

\* the second reconciliation ran on a ledger that kept a zero entry for an
\* item that is no longer held, next to items that are held
C5_Witness ==
  /\ pc = "rec2"
  /\ currentInventory # <<>>
  /\ prevInventory = ToMap(currentInventory)
  /\ \E k \in DOMAIN investmentRecord : k \notin Names(currentInventory)
  /\ \E k \in DOMAIN investmentRecord : investmentRecord[k] > 0

\* the persisted investment_record
Ledger == store["investment_record"].data

\* C6: starting from an investment_record without negative values, after any
\* sequence of runs with arbitrary observed snapshots (quantities >= 1),
\* every value of the persisted investment_record is >= 0.
C6_LedgerNonNegative ==
  \A k \in DOMAIN Ledger : Ledger[k] >= 0

\* a clean run has persisted a ledger in which a drop larger than a positive
\* investment was absorbed
C6_Witness ==
  /\ pc = "exited"
  /\ exitCode = 0
  /\ failedStage = "none"
  /\ \E j \in DOMAIN currentInventory :
       LET name == currentInventory[j][1]
       IN /\ name \in DOMAIN prevInventory
          /\ name \in DOMAIN investmentRecord
          /\ investmentRecord[name] > 0
          /\ prevInventory[name] - currentInventory[j][2] >
               investmentRecord[name]
          /\ name \in DOMAIN Ledger
          /\ Ledger[name] = 0

\* C7: after any run, the outgoing ledger holds no item whose value is 0 and
\* which is absent from the current snapshot.
C7_NoLingeringZero ==
  (pc = "exited" /\ failedStage = "none") =>
    \A k \in DOMAIN Ledger :
      Ledger[k] = 0 => k \in Names(currentInventory)

\* the pair of documents the run computed
ComputedStore ==
  [d \in Docs |-> [exists |-> TRUE, data |-> Payload(d)]]

\* C8: after any run, whatever external call fails, the stored pair
\* (prev_inventory, investment_record) is either the pair stored before the
\* run or the pair (current snapshot, new ledger) the run computed.
C8_NoPartialCommit ==
  pc = "exited" => (store = storeAtStart \/ store = ComputedStore)

\* C9: when the profile fetch fails on all attempts or the profile is
\* malformed, the process ends with a non-zero exit status; exit status 0
\* occurs only for a run that completed cleanly.
C9_ExitStatusOnProfileFailure ==
  pc = "exited" =>
    /\ failedStage \in {"profile", "extract"} => exitCode # 0
    /\ exitCode = 0 => failedStage = "none"

\* C10: in every run in which a stage fails, the remaining stages are not
\* executed and a failure notification is attempted through
\* sendTelegramMessage before the process ends.
C10_FailureReported ==
  (pc = "exited" /\ failedStage # "none") =>
    /\ "failure" \in attempted
    /\ failedStage \in {"profile", "extract", "read"} =>
         (store = storeAtStart /\ "change" \notin attempted
            /\ newInvestmentRecord = <<>>)

\* the run has executed lines 145-188
Reconciled ==
  \/ pc \in {"notifyChange", "write"}
  \/ pc \in {"notifyFailure", "exited"} /\ failedStage \in {"none", "write"}

\* some item of the current snapshot has a quantity different from its
\* previous quantity, missing counting as 0
SomeItemDiffers ==
  \E j \in DOMAIN currentInventory :
    currentInventory[j][2] # GetOr0(prevInventory, currentInventory[j][1])

\* C11 as stated: in a run that reaches reconciliation, a change
\* notification is sent exactly when the change set is non-empty.
C11_NotifiedIffItemDiffers ==
  Reconciled => (("change" \in attempted) <=> SomeItemDiffers)

\* C11 amended: in a run that reaches reconciliation, a change notification
\* is sent exactly when hasChanges is true, whether or not an item of the
\* current snapshot differs from its previous quantity.
C11_NotifiedIffDirty ==
  Reconciled => (("change" \in attempted) <=> hasChanges)

\* a header-only message: the ledger was pruned and no held item differs
C11_Witness ==
  /\ Reconciled
  /\ hasChanges
  /\ "change" \in attempted
  /\ ~SomeItemDiffers
  /\ currentInventory # <<>>

\* the lines are change lines of the current snapshot against the previous
\* one: every line is <<item, previous or 0, current>> of an item whose
\* quantity differs, every such item has a line, and the lines follow the
\* iteration order of the current snapshot
IsChangeSetOf(lines, cur, prev) ==
  /\ \A l \in DOMAIN lines :
       /\ lines[l][1] \in Names(cur)
       /\ lines[l][2] = GetOr0(prev, lines[l][1])
       /\ lines[l][3] = CountOf(cur, lines[l][1])
       /\ lines[l][2] # lines[l][3]
  /\ \A j \in DOMAIN cur :
       cur[j][2] # GetOr0(prev, cur[j][1]) =>
         \E l \in DOMAIN lines : lines[l][1] = cur[j][1]
  /\ \A l1, l2 \in DOMAIN lines :
       l1 < l2 => IndexOf(cur, lines[l1][1]) < IndexOf(cur, lines[l2][1])

\* C12 as stated: the change lines are exactly the items of the current
\* snapshot whose quantity differs from (previous or 0), in the iteration
\* order of the current snapshot, each carrying (item, previous or 0,
\* current).
C12_ChangeSetOfEveryRun ==
  pc = "rec1" => IsChangeSetOf(changes, currentInventory, prevInventory)

\* C12 amended: when hasChanges is true, the change lines are exactly the
\* items of the current snapshot whose quantity differs from (previous or
\* 0), in the iteration order of the current snapshot, each carrying (item,
\* previous or 0, current); when hasChanges is false no change line is built.
C12_ChangeSetWhenDirty ==
  pc = "rec1" =>
    IF hasChanges
    THEN IsChangeSetOf(changes, currentInventory, prevInventory)
    ELSE changes = <<>>

\* two lines in the order of the snapshot, one a drop and one a new item,
\* while another order of the same lines would follow the item names
C12_Witness ==
  /\ pc = "rec1"
  /\ hasChanges
  /\ Len(changes) = 2
  /\ changes[1][1] = "Diamond"
  /\ changes[1][2] > changes[1][3]
  /\ changes[2][1] = "Bow"
  /\ changes[2][2] = 0

\* C13: hasChanges is true after the two passes if and only if the outgoing
\* ledger differs from the incoming ledger (a value raised or lowered, or a
\* key deleted), whether or not the change set is empty.
C13_DirtyIffLedgerDiffers ==
  pc = "rec1" => (hasChanges <=> newInvestmentRecord # investmentRecord)

\* an item dropped with nothing invested: the change set is not empty, the
\* ledger is untouched and the run is not dirty
C13_Witness ==
  /\ pc = "rec1"
  /\ SomeItemDiffers
  /\ hasChanges = FALSE
  /\ newInvestmentRecord = investmentRecord
  /\ investmentRecord # <<>>

\* C15: fetchWithRetry makes at most MAX_RETRIES attempts, leaves the loop
\* on the first ok response, counts a non-ok status as a failed attempt and
\* rethrows only the error of the last attempt; so every run terminates,
\* whatever pattern of success and failure the external calls show.
C15_BoundedRetryAndTermination ==
  /\ [](/\ pc \in FetchSites => i + 1 <= MAX_RETRIES
        /\ failedStage = "profile" => i + 1 = MAX_RETRIES)
  /\ <>(pc = "exited")

\* the profile fetch was given up after the last attempt
C15_Witness ==
  /\ pc = "exited"
  /\ failedStage = "profile"
  /\ i + 1 = MAX_RETRIES

\* C16: a failed read of prev_inventory / investment_record or a failed
\* write of either document is retried up to a fixed bound and fails the run
\* only after the retries are exhausted.
C16_StoreErrorsRetried ==
  failedStage \in {"read", "write"} => storeErrors >= MAX_RETRIES

\* the change notification was handed to sendTelegramMessage and was not
\* delivered, and sendTelegramMessage has returned
ChangeNotDelivered ==
  /\ "change" \in attempted
  /\ "change" \notin delivered
  /\ pc # "notifyChange"

\* C17: sendTelegramMessage never throws: when delivery of the change
\* notification fails on all attempts in a dirty run, the run goes on to
\* write both documents, and when both writes succeed the process ends with
\* exit status 0.
C17_NotificationFailureNotFatal ==
  ChangeNotDelivered =>
    /\ hasChanges
    /\ failedStage \in {"none", "write"}
    /\ failedStage = "none" => (pc = "write" \/ pc = "exited")
    /\ (failedStage = "none" /\ pc = "exited") =>
         (exitCode = 0 /\ store = ComputedStore)

\* all attempts to deliver failed and the run ended cleanly with both
\* documents written
C17_Witness ==
  /\ ChangeNotDelivered
  /\ i + 1 = MAX_RETRIES
  /\ pc = "exited"
  /\ exitCode = 0
  /\ store = ComputedStore
  /\ store # storeAtStart

\* C18: every run that obtains a snapshot and loads the prior state without
\* error issues both writes at its end, and when they succeed
\* prev_inventory is the current snapshot and investment_record the new
\* ledger, in full, also when hasChanges is false and nothing was notified.
C18_UnconditionalWriteBack ==
  /\ pc = "write" => (pending # {} /\ failedStage = "none")
  /\ (pc = "exited" /\ failedStage = "none") =>
       (exitCode = 0 /\ store = ComputedStore)

\* a run that was not dirty and notified nothing replaced a snapshot that
\* held other items
C18_Witness ==
  /\ pc = "exited"
  /\ failedStage = "none"
  /\ hasChanges = FALSE
  /\ attempted = {}
  /\ store = ComputedStore
  /\ store # storeAtStart
  /\ storeAtStart["prev_inventory"].exists
  /\ \E k \in DOMAIN storeAtStart["prev_inventory"].data :
       k \notin Names(currentInventory)

\* every slot of a source: the slots of a container, or the slots of all
\* the units of a storage that have contents
RECURSIVE SlotsOfUnits(_)
SlotsOfUnits(units) ==
  IF units = <<>> THEN <<>>
  ELSE (IF Head(units).has THEN Head(units).containsItems ELSE <<>>)
       \o SlotsOfUnits(Tail(units))

SlotsOfSource ==
  IF rawSource.kind = "storage"
  THEN SlotsOfUnits(rawSource.tree)
  ELSE rawSource.tree

\* the slot has an id and carries the name
Carries(slot, name) ==
  /\ slot.id
  /\ \/ slot.display_name = name
     \/ slot.display_name = Undefined /\ name = Fallback

\* the sum of the counts of the slots that carry the name
RECURSIVE TotalOf(_, _)
TotalOf(slots, name) ==
  IF slots = <<>> THEN 0
  ELSE (IF Carries(Head(slots), name)
        THEN (IF Head(slots).Count = 0 THEN 1 ELSE Head(slots).Count)
        ELSE 0)
       + TotalOf(Tail(slots), name)

\* C19: for a flat container and for storage across all its units, the
\* quantity reported for a display name is the sum of the counts of all
\* slots carrying that name; a slot without id is skipped, a missing count
\* is 1 and a missing display name maps to the one fallback name.
C19_ExtractionSumsDuplicates ==
  pc = "extract1" =>
    LET result == inventoryData[rawSource.kind]
    IN /\ Cardinality(Names(result)) = Len(result)
       /\ Names(result) \subseteq Items \cup {Fallback}
       /\ \A name \in Items \cup {Fallback} :
            IF \E j \in DOMAIN SlotsOfSource :
                 Carries(SlotsOfSource[j], name)
            THEN /\ name \in Names(result)
                 /\ CountOf(result, name) = TotalOf(SlotsOfSource, name)
            ELSE name \notin Names(result)

\* a storage whose two units each hold a slot of the same item, one of them
\* without Count, next to a slot without id and a unit without contents
C19_Witness ==
  /\ pc = "extract1"
  /\ rawSource.kind = "storage"
  /\ Len(rawSource.tree) = 3
  /\ \E n \in Items :
       /\ \E j \in DOMAIN rawSource.tree[1].containsItems :
            LET slot == rawSource.tree[1].containsItems[j]
            IN slot.id /\ slot.display_name = n /\ slot.Count = MaxCount
       /\ \E j \in DOMAIN rawSource.tree[3].containsItems :
            LET slot == rawSource.tree[3].containsItems[j]
            IN slot.id /\ slot.display_name = n /\ slot.Count = 0
       /\ CountOf(inventoryData["storage"], n) = MaxCount + 1
  /\ \E j \in DOMAIN SlotsOfSource : ~SlotsOfSource[j].id

\* the quantity a source reports for a name, 0 when it has none
QtyIn(source, name) == CountOf(inventoryData[source], name)

\* C20: when an item name occurs in more than one of inventory, ender-chest
\* and storage, the merged current snapshot holds the quantity of the last
\* source in that order that has it, not the sum; the merged key set is the
\* union of the three key sets.
C20_MergeOverwrites ==
  pc = "merge1" =>
    /\ Cardinality(Names(currentInventory)) = Len(currentInventory)
    /\ Names(currentInventory) =
         UNION {Names(inventoryData[src]) : src \in Sources}
    /\ \A name \in Names(currentInventory) :
         CountOf(currentInventory, name) =
           IF name \in Names(inventoryData["storage"])
           THEN QtyIn("storage", name)
           ELSE IF name \in Names(inventoryData["enderchest"])
           THEN QtyIn("enderchest", name)
           ELSE QtyIn("inventory", name)

\* an item held in all three sources with three different quantities, and
\* another held in the inventory only
C20_Witness ==
  /\ pc = "merge1"
  /\ \E name \in Items :
       /\ QtyIn("inventory", name) = 3
       /\ QtyIn("enderchest", name) = 2
       /\ QtyIn("storage", name) = 1
       /\ CountOf(currentInventory, name) = 1
  /\ \E name \in Items :
       /\ QtyIn("inventory", name) > 0
       /\ QtyIn("enderchest", name) = 0
       /\ QtyIn("storage", name) = 0
       /\ CountOf(currentInventory, name) = QtyIn("inventory", name)

\* what the two documents held before either run touched the store
StartPrev ==
  IF storeAtStart["prev_inventory"].exists
  THEN storeAtStart["prev_inventory"].data ELSE <<>>

StartLedger ==
  IF storeAtStart["investment_record"].exists
  THEN storeAtStart["investment_record"].data ELSE <<>>

\* Both runs are over and saw the same current snapshot, in which itemName
\* has d units more than in the snapshot stored before them.  The first run
\* read both documents as they were; the second run read prev_inventory
\* before the first run replaced it and investment_record after, and its
\* own investment_record write is the one that stays.
DoubleCountInterleaving(itemName, d) ==
  /\ pc = "exited"
  /\ other.pc = "done"
  /\ other.currentInventory = currentInventory
  /\ itemName \in Names(currentInventory)
  /\ d > 0
  /\ d = CountOf(currentInventory, itemName) - GetOr0(StartPrev, itemName)
  /\ prevInventory = StartPrev
  /\ investmentRecord = StartLedger
  /\ other.prevInventory = StartPrev
  /\ other.investmentRecord = newInvestmentRecord
  /\ Ledger = other.newInvestmentRecord

\* C14: two runs of checkInventoryChanges are not mutually excluded; in the
\* interleaving of their document reads and writes where both observe the
\* same current snapshot with an acquisition of d units of an item, the
\* second reads the old prev_inventory and the first's new
\* investment_record, the persisted ledger value of that item ends 2*d above
\* the value it had before the two runs.
C14_OverlapDoubleCounts ==
  \A itemName \in Items : \A d \in 1..MaxQty :
    DoubleCountInterleaving(itemName, d) =>
      GetOr0(Ledger, itemName) = GetOr0(StartLedger, itemName) + 2 * d

\* the interleaving happens: 1 unit stored and invested, 3 units observed by
\* both runs, 5 invested after them
C14_Witness ==
  \E itemName \in Items :
    /\ DoubleCountInterleaving(itemName, 2)
    /\ GetOr0(StartLedger, itemName) = 1
    /\ CountOf(currentInventory, itemName) = 3
    /\ GetOr0(Ledger, itemName) = 5

\* the stages of a run follow one another: no read is in flight before the
\* profile is there, none is left when reconciliation starts, no write is in
\* flight before the change notification is over, and the store is untouched
\* until then
StageOrdering ==
  /\ pc \in {"fetchProfile", "reconcile", "notifyChange"} => pending = {}
  /\ pc \in {"fetchProfile", "read", "reconcile", "notifyChange"} =>
       store = storeAtStart
  /\ pc = "write" /\ hasChanges => "change" \in attempted

\* the run notified a change and then one of its writes was rejected
WriteFailedAfterNotifying ==
  /\ pc = "exited"
  /\ failedStage = "write"
  /\ "change" \in attempted

\* what a next run computes when it observes the snapshot of this run again
\* and reads the store as this run left it
NextRunOnSameSnapshot ==
  Reconcile(currentInventory, getFirebaseData("prev_inventory"),
            getFirebaseData("investment_record"))

\* C21: the profile fetch completes before any document read, both reads
\* complete before reconciliation, and the change notification attempt
\* completes before either write is issued; so a run whose write fails after
\* notifying leaves the store unchanged, and the next run against the same
\* observed snapshot recomputes the same change set and notifies again.
C21_StageOrderAndRedo ==
  /\ StageOrdering
  /\ WriteFailedAfterNotifying =>
       /\ store = storeAtStart
       /\ NextRunOnSameSnapshot.dirty
       /\ NextRunOnSameSnapshot.rec = newInvestmentRecord
       /\ BuildChanges(NextRunOnSameSnapshot.dirty, currentInventory,
                       getFirebaseData("prev_inventory")) = changes

\* C22: starting from an empty store, after any sequence of non-overlapping
\* runs in which every external call succeeds and observed quantities are
\* >= 1, the persisted investment_record equals the persisted
\* prev_inventory: same key set and same value for every item.
C22_LedgerMirrorsSnapshot ==
  pc = "exited" =>
    /\ store["prev_inventory"].exists
    /\ store["investment_record"].exists
    /\ DOMAIN Ledger = DOMAIN store["prev_inventory"].data
    /\ \A k \in DOMAIN Ledger : Ledger[k] = store["prev_inventory"].data[k]

\* a later run has ended with something sold, something kept and something
\* gone: the stored snapshot is not the one the run started from and still
\* equals the ledger
C22_Witness ==
  /\ pc = "exited"
  /\ storeAtStart["investment_record"].exists
  /\ DOMAIN StartLedger = Items
  /\ \E k \in Items :
       /\ k \in DOMAIN Ledger
       /\ 0 < Ledger[k] /\ Ledger[k] < StartLedger[k]
  /\ \E k \in Items : k \notin DOMAIN Ledger
  /\ Ledger = store["prev_inventory"].data

\* C23: when getPlayerInventory fails (fetch retries exhausted or malformed
\* profile) the run ends without reading or writing either document:
\* prev_inventory and investment_record are as they were when the run began
\* and the ledger is not pruned as if the inventory were empty.
C23_FailedProfileLeavesStore ==
  failedStage \in {"profile", "extract"} =>
    /\ pc = "exited"
    /\ pending = {}
    /\ prevInventory = <<>> /\ investmentRecord = <<>>
    /\ newInvestmentRecord = <<>>
    /\ store = storeAtStart

\* the profile fetch has failed three times over a store whose ledger has a
\* positive entry, which an empty inventory would have pruned
C23_Witness ==
  /\ failedStage = "profile"
  /\ i = MAX_RETRIES - 1
  /\ pc = "exited"
  /\ \E k \in DOMAIN Ledger : Ledger[k] > 0
  /\ Reconcile(<<>>, getFirebaseData("prev_inventory"), Ledger).rec # Ledger
  /\ store = storeAtStart

====
